---- MODULE Spec2Model ----
(***************************************************************************)
(* A model of nhl_shots.py: the retrying fetcher get_json, the resolvers   *)
(* built on it (get_matchups_today, roster_skaters,                        *)
(* lastN_shots_from_game_log, club_shots_against_per_game) and the run of  *)
(* main that sequences them and posts the shortlist.                       *)
(*                                                                         *)
(* Times are in hundredths of a second (0.6 s = 60, 12 s = 1200).          *)
(* JSON values are tagged records [t, v]; a JSON null and an absent key    *)
(* are the same value (dict.get returns None for both).                    *)
(***************************************************************************)
EXTENDS Integers, Sequences, FiniteSets, TLC

\* ------------------------------------------------------------------------
\* Configuration (module level constants of the program)
\* ------------------------------------------------------------------------

\* SLEEP_BETWEEN_CALLS = 0.18
SLEEP_BETWEEN_CALLS == 18

\* get_json(url, max_retries = 7)
max_retries == 7

\* backoff = 0.6
BackoffStart == 60

\* min(backoff * 2, 12)
BackoffCap == 1200

\* N_GAMES, the sample size (an environment option, default 10), scaled down
N_GAMES == 2

\* LEAGUE_AVG_SA (an environment option, default 28.0), as a reduced fraction
LEAGUE_AVG_SA == [num |-> 28, den |-> 1]

\* ------------------------------------------------------------------------
\* Bounds of the input spaces
\* ------------------------------------------------------------------------

\* longest list of game descriptors a schedule payload holds
MaxGames == 2

\* longest game log a game-log payload holds
MaxLog == 3

\* ------------------------------------------------------------------------
\* JSON values
\* ------------------------------------------------------------------------
Null == [t |-> "null", v |-> 0]
IntV(n) == [t |-> "int", v |-> n]
StrV == [t |-> "str", v |-> 0]

\* isinstance(x, int)
IsInt(x) == x.t = "int"

Min(a, b) == IF a <= b THEN a ELSE b

RECURSIVE Gcd(_, _)
Gcd(a, b) == IF b = 0 THEN a ELSE Gcd(b, a % b)

\* the float n / d of two integers, d > 0, kept exact as a reduced fraction
Ratio(n, d) ==
    LET g == Gcd(n, d) IN
    IF g = 0 THEN [num |-> 0, den |-> 1] ELSE [num |-> n \div g, den |-> d \div g]

\* ------------------------------------------------------------------------
\* Team codes.  NoCode is what (g.get("homeTeam") or {}).get("abbrev")
\* yields when the side, or its abbrev, is missing, null or empty: every
\* such value is falsy in `if home and away`.
\* ------------------------------------------------------------------------
NoCode == ""

\* in alphabetical order, the order of sorted()
TeamSeq == <<"BOS", "MTL", "TOR", "WPG">>

Teams == {TeamSeq[i] : i \in 1..Len(TeamSeq)}

Codes == Teams \cup {NoCode}

\* ------------------------------------------------------------------------
\* get_json: the Retry-After header and the backoff
\* ------------------------------------------------------------------------
Digits == <<"0", "1", "2", "3", "4", "5", "6", "7", "8", "9">>

DigitSet == {Digits[i] : i \in 1..Len(Digits)}

DigitValue(c) == (CHOOSE i \in 1..Len(Digits) : Digits[i] = c) - 1

\* A header is [present, text, delay]: text is the header's characters,
\* delay the wait the header asks for (for an HTTP-date, the time left
\* until that date).  r.headers.get("Retry-After") is None when not present.
NoHeader == [present |-> FALSE, text |-> <<>>, delay |-> 0]

\* "5"
HeaderSeconds5 == [present |-> TRUE, text |-> <<"5">>, delay |-> 500]

\* "12"
HeaderSeconds12 == [present |-> TRUE, text |-> <<"1", "2">>, delay |-> 1200]

\* "Wed, 04 Nov 2026 07:28:07 GMT", seven seconds ahead
HeaderDate ==
    [present |-> TRUE,
     text |-> <<"W", "e", "d", ",", " ", "0", "4", " ", "N", "o", "v", " ",
                "2", "0", "2", "6", " ", "0", "7", ":", "2", "8", ":", "0",
                "7", " ", "G", "M", "T">>,
     delay |-> 700]

Headers == {NoHeader, HeaderSeconds5, HeaderSeconds12, HeaderDate}

\* str.isdigit(): non-empty and every character a digit
IsDigitText(s) == Len(s) > 0 /\ \A i \in 1..Len(s) : s[i] \in DigitSet

\* float(retry_after) of a digit string, in hundredths of a second
RECURSIVE DecimalValue(_)
DecimalValue(s) ==
    IF Len(s) = 0 THEN 0
    ELSE 10 * DecimalValue(SubSeq(s, 1, Len(s) - 1)) + DigitValue(s[Len(s)])

FloatOf(s) == 100 * DecimalValue(s)

\* retry_after and retry_after.isdigit()
UsesHeader(h) == h.present /\ Len(h.text) > 0 /\ IsDigitText(h.text)

\* wait = float(retry_after) if (retry_after and retry_after.isdigit()) else backoff
Wait(h, b) == IF UsesHeader(h) THEN FloatOf(h.text) ELSE b

\* the doubling without its cap
NextBackoff_NoCap(b) == b * 2

\* backoff = min(backoff * 2, 12)
NextBackoff(b) == Min(b * 2, BackoffCap)

\* r.status_code values: success, throttled, and 4xx/5xx errors
StatusOk == 200
StatusThrottled == 429
ErrorStatuses == {404, 503}

\* r.raise_for_status() raises for 400 <= status < 600
RaisesForStatus(s) == 400 <= s /\ s < 600

\* ------------------------------------------------------------------------
\* get_matchups_today: the mapping built from the game descriptors
\* ------------------------------------------------------------------------
EmptyMap == [x \in {} |-> NoCode]

\* matchups[k] = v
Put(m, k, v) == [x \in (DOMAIN m) \cup {k} |-> IF x = k THEN v ELSE m[x]]

\* a side is entered even when the other side's code is missing
AddGame_KeepHalf(m, g) ==
    IF g.homeTeam # NoCode \/ g.awayTeam # NoCode
    THEN Put(Put(m, g.homeTeam, g.awayTeam), g.awayTeam, g.homeTeam)
    ELSE m

\* only the home side is entered
AddGame_OneWay(m, g) ==
    IF g.homeTeam # NoCode /\ g.awayTeam # NoCode
    THEN Put(m, g.homeTeam, g.awayTeam)
    ELSE m

\* if home and away: matchups[home] = away; matchups[away] = home
AddGame(m, g) ==
    IF g.homeTeam # NoCode /\ g.awayTeam # NoCode
    THEN Put(Put(m, g.homeTeam, g.awayTeam), g.awayTeam, g.homeTeam)
    ELSE m

\* the loop ends at the first descriptor that lacks a code
RECURSIVE MatchupsFrom_Break(_, _)
MatchupsFrom_Break(m, gs) ==
    IF Len(gs) = 0 THEN m
    ELSE IF Head(gs).homeTeam = NoCode \/ Head(gs).awayTeam = NoCode THEN m
    ELSE MatchupsFrom_Break(AddGame(m, Head(gs)), Tail(gs))

\* for g in data.get("games", [])
RECURSIVE MatchupsFrom(_, _)
MatchupsFrom(m, gs) ==
    IF Len(gs) = 0 THEN m ELSE MatchupsFrom(AddGame(m, Head(gs)), Tail(gs))

\* the mapping get_matchups_today returns for the payload's games
Matchups(gs) == MatchupsFrom(EmptyMap, gs)

\* sorted(matchups.keys())
SortedKeys(m) == SelectSeq(TeamSeq, LAMBDA c : c \in DOMAIN m)

\* ------------------------------------------------------------------------
\* roster_skaters
\* ------------------------------------------------------------------------
\* A name field is [shape, text]: "nested" is an object holding the key
\* default, "plain" a bare string, "absent" a missing key or a null.
Absent == [shape |-> "absent", text |-> ""]
Nested(s) == [shape |-> "nested", text |-> s]
Plain(s) == [shape |-> "plain", text |-> s]

\* (p.get(key) or {}).get("default") or p.get(key): a bare non-empty string
\* has no .get, and the expression raises AttributeError; an object whose
\* default is empty is itself the value, and " ".join raises TypeError on it
NamePartRaises(f) ==
    \/ f.shape = "plain" /\ f.text # ""
    \/ f.shape = "nested" /\ f.text = ""

NamePart(f) == IF f.shape = "nested" THEN f.text ELSE ""

\* " ".join([x for x in [first, last] if x]), as the sequence of its words
JoinNames(first, last) ==
    (IF first # "" THEN <<first>> ELSE <<>>) \o (IF last # "" THEN <<last>> ELSE <<>>)

\* full_name(p): [raised, name]
full_name(p) ==
    IF NamePartRaises(p.firstName) \/ NamePartRaises(p.lastName)
    THEN [raised |-> TRUE, name |-> <<>>]
    ELSE LET joined == JoinNames(NamePart(p.firstName), NamePart(p.lastName)) IN
         [raised |-> FALSE,
          name |-> IF joined # <<>> THEN joined
                   ELSE IF p.fullName # "" THEN <<p.fullName>>
                   ELSE <<"Unknown">>]

\* for p in data.get(group_key, []): if isinstance(pid, int): out.append(...)
RECURSIVE GroupSkaters(_, _, _)
GroupSkaters(ps, pos, acc) ==
    IF acc.raised \/ Len(ps) = 0 THEN acc
    ELSE LET p == Head(ps) IN
         IF ~IsInt(p.id) THEN GroupSkaters(Tail(ps), pos, acc)
         ELSE LET n == full_name(p) IN
              IF n.raised THEN [raised |-> TRUE, out |-> acc.out]
              ELSE GroupSkaters(Tail(ps), pos,
                       [raised |-> FALSE,
                        out |-> Append(acc.out,
                                  [pid |-> p.id.v, name |-> n.name, pos |-> pos])])

\* roster_skaters on the payload: forwards first, then defensemen
roster_skaters(data) ==
    GroupSkaters(data.defensemen, "D",
        GroupSkaters(data.forwards, "F", [raised |-> FALSE, out |-> <<>>]))

\* ------------------------------------------------------------------------
\* lastN_shots_from_game_log
\* ------------------------------------------------------------------------
\* skaterStats is never looked at
ShotValue_PrimaryOnly(g) == g.shots

\* s = g.get("shots"); if s is None and isinstance(g.get("skaterStats"), dict):
\*     s = g["skaterStats"].get("shots")
ShotValue(g) ==
    IF g.shots.t = "null" /\ g.skaterStats.isDict THEN g.skaterStats.shots ELSE g.shots

\* a value that is no integer is counted as zero
RECURSIVE ScanLog_ZeroFill(_, _, _, _)
ScanLog_ZeroFill(log, i, shots, n) ==
    IF i > Len(log) THEN [shots |-> shots, nread |-> Len(log)]
    ELSE LET s == ShotValue(log[i])
             shots2 == Append(shots, IF IsInt(s) THEN s.v ELSE 0)
         IN IF Len(shots2) >= n THEN [shots |-> shots2, nread |-> i]
            ELSE ScanLog_ZeroFill(log, i + 1, shots2, n)

\* the loop over game_log: [shots, nread], nread the entries read
RECURSIVE ScanLog(_, _, _, _)
ScanLog(log, i, shots, n) ==
    IF i > Len(log) THEN [shots |-> shots, nread |-> Len(log)]
    ELSE LET s == ShotValue(log[i])
             shots2 == IF IsInt(s) THEN Append(shots, s.v) ELSE shots
         IN IF Len(shots2) >= n THEN [shots |-> shots2, nread |-> i]
            ELSE ScanLog(log, i + 1, shots2, n)

\* None
Insufficient == [ok |-> FALSE, shots |-> <<>>]

\* lastN_shots_from_game_log on the payload: [ok, shots]
lastN_shots_from_game_log(data, n) ==
    IF ~data.isList \/ Len(data.gameLog) = 0 THEN Insufficient
    ELSE LET r == ScanLog(data.gameLog, 1, <<>>, n) IN
         IF Len(r.shots) < n THEN Insufficient
         ELSE [ok |-> TRUE, shots |-> SubSeq(r.shots, 1, n)]

\* ------------------------------------------------------------------------
\* club_shots_against_per_game
\* ------------------------------------------------------------------------
\* [x.get(key) for x in xs if isinstance(x.get(key), int)]
RECURSIVE IntVals(_)
IntVals(vs) ==
    IF Len(vs) = 0 THEN <<>>
    ELSE (IF IsInt(Head(vs)) THEN <<Head(vs).v>> ELSE <<>>) \o IntVals(Tail(vs))

RECURSIVE Sum(_)
Sum(xs) == IF Len(xs) = 0 THEN 0 ELSE Head(xs) + Sum(Tail(xs))

MaxOf(xs) == CHOOSE m \in {xs[i] : i \in 1..Len(xs)} : \A i \in 1..Len(xs) : xs[i] <= m

Unavailable == [ok |-> FALSE, value |-> [num |-> 0, den |-> 1]]

\* club_shots_against_per_game on the payload: [ok, value]
club_shots_against_per_game(data) ==
    IF ~data.skatersIsList \/ ~data.goaliesIsList
       \/ Len(data.skaters) = 0 \/ Len(data.goalies) = 0
    THEN Unavailable
    ELSE LET gp_vals == IntVals(data.skaters)
             sa_vals == IntVals(data.goalies)
         IN IF Len(gp_vals) = 0 THEN Unavailable
            ELSE IF MaxOf(gp_vals) <= 0 THEN Unavailable
            ELSE IF Len(sa_vals) = 0 THEN Unavailable
            ELSE [ok |-> TRUE, value |-> Ratio(Sum(sa_vals), MaxOf(gp_vals))]

\* a strength that is not available counts as zero shots against
StrengthOrBaseline_Zero(r) == IF r.ok THEN r.value ELSE Ratio(0, 1)

\* opp_sa if opp_sa is not None else LEAGUE_AVG_SA
StrengthOrBaseline(r) == IF r.ok THEN r.value ELSE LEAGUE_AVG_SA

\* ------------------------------------------------------------------------
\* Scoring and ranking (main, lines 234-304)
\* ------------------------------------------------------------------------
\* first 4 forwards, first 1 defenseman
TopForwards == 4
TopDefense == 1

\* n / d rounded to the nearest integer, d > 0
RoundDiv(n, d) == (2 * n + d) \div (2 * d)

\* the integer square root of x by bisection, lo * lo <= x < hi * hi
RECURSIVE ISqrtIn(_, _, _)
ISqrtIn(x, lo, hi) ==
    IF hi - lo <= 1 THEN lo
    ELSE LET mid == (lo + hi) \div 2 IN
         IF mid * mid <= x THEN ISqrtIn(x, mid, hi) ELSE ISqrtIn(x, lo, mid)

ISqrt(x) == ISqrtIn(x, 0, 46340)

Count(xs, k) == Cardinality({i \in 1..Len(xs) : xs[i] >= k})

Squares(xs) == [i \in 1..Len(xs) |-> xs[i] * xs[i]]

\* len(vals)^2 times the population variance of stddev(vals)
VarianceN2(xs) == Len(xs) * Sum(Squares(xs)) - Sum(xs) * Sum(xs)

\* 1.0
One == [num |-> 1, den |-> 1]

\* the opponent's strength is left out
boost_Constant(opp_sa, league_avg) == One

\* boost = (opp_sa / LEAGUE_AVG_SA) if LEAGUE_AVG_SA > 0 else 1.0
boost(opp_sa, league_avg) ==
    IF league_avg.num > 0
    THEN Ratio(opp_sa.num * league_avg.den, opp_sa.den * league_avg.num)
    ELSE One

\* round(score2, 4) in units of 0.0001, with
\* score2 = sN * boost + 0.6 * hit2 - 0.15 * sdN: for boost = p / q and
\* sdN = sqrt(v) / n, 10000 * score2 is
\* (10000 * p * sum + 6000 * q * hit - 1500 * q * sqrt(v)) / (q * n), exact when v
\* is a perfect square and (as sqrt is rounded down) within 1 / n of it otherwise
Score2(shots, opp_sa) ==
    LET n == Len(shots)
        b == boost(opp_sa, LEAGUE_AVG_SA)
    IN RoundDiv(10000 * b.num * Sum(shots) + 6000 * b.den * Count(shots, 2)
                    - b.den * ISqrt(2250000 * VarianceN2(shots)),
                b.den * n)

\* the record main appends to all_rows; shots is the history its numeric
\* fields are computed from
Row(sk, team, opp, shots, opp_sa) ==
    [Player |-> sk.name, PlayerId |-> sk.pid, Team |-> team, Opp |-> opp,
     Pos |-> sk.pos, shots |-> shots, OppSA |-> opp_sa,
     Score2 |-> Score2(shots, opp_sa)]

\* where a stable descending sort puts r: after every row whose key is >= its own
RECURSIVE InsertDesc(_, _)
InsertDesc(sorted, r) ==
    IF Len(sorted) = 0 THEN <<r>>
    ELSE IF Head(sorted).Score2 >= r.Score2
         THEN <<Head(sorted)>> \o InsertDesc(Tail(sorted), r)
         ELSE <<r>> \o sorted

\* the roster order is kept
SortDesc_RosterOrder(rows) == rows

\* rows.sort(key=lambda x: x["Score2"], reverse=True)
RECURSIVE SortDesc(_)
SortDesc(rows) ==
    IF Len(rows) = 0 THEN <<>>
    ELSE InsertDesc(SortDesc(SubSeq(rows, 1, Len(rows) - 1)), rows[Len(rows)])

\* nothing is cut
Take_NoCut(xs, k) == xs

\* xs[:k]
Take(xs, k) == SubSeq(xs, 1, Min(k, Len(xs)))

\* top_f followed by top_d for one team
Shortlist(rows, team) ==
    LET team_rows == SelectSeq(rows, LAMBDA r : r.Team = team)
        forwards == SortDesc(SelectSeq(team_rows, LAMBDA r : r.Pos = "F"))
        defense == SortDesc(SelectSeq(team_rows, LAMBDA r : r.Pos = "D"))
    IN Take(forwards, TopForwards) \o Take(defense, TopDefense)

\* for team in sorted(set(r["Team"] for r in all_rows)): the teams from position i
RECURSIVE OutputFrom(_, _)
OutputFrom(rows, i) ==
    IF i > Len(TeamSeq) THEN <<>>
    ELSE Shortlist(rows, TeamSeq[i]) \o OutputFrom(rows, i + 1)

\* output_rows
OutputRows(rows) == OutputFrom(rows, 1)

\* ------------------------------------------------------------------------
\* Upstream payloads
\* ------------------------------------------------------------------------
NoPayload == [kind |-> "none"]

\* a game descriptor, by the abbrev of each side
Game(home, away) == [homeTeam |-> home, awayTeam |-> away]

SchedulePayload(gs) == [kind |-> "score", games |-> gs]

\* a player descriptor of a roster group
Player(id, first, last, full) ==
    [id |-> id, firstName |-> first, lastName |-> last, fullName |-> full]

RosterPayload(fs, ds) == [kind |-> "roster", forwards |-> fs, defensemen |-> ds]

\* a game-log entry: the primary shots field and the skaterStats block
NoStats == [isDict |-> FALSE, shots |-> Null]
Stats(s) == [isDict |-> TRUE, shots |-> s]
Entry(s, st) == [shots |-> s, skaterStats |-> st]

\* isList is FALSE when gameLog is missing or is not a list
GameLogPayload(isList, log) == [kind |-> "gamelog", isList |-> isList, gameLog |-> log]

ClubStatsPayload(sIsList, gIsList, gps, sas) ==
    [kind |-> "clubstats", skatersIsList |-> sIsList, goaliesIsList |-> gIsList,
     skaters |-> gps, goalies |-> sas]

\* the schedules a run of main is given
SchedulePayloads ==
    {SchedulePayload(<<>>),
     SchedulePayload(<<Game("BOS", "MTL")>>),
     SchedulePayload(<<Game("BOS", NoCode)>>),
     SchedulePayload(<<Game("BOS", "MTL"), Game("TOR", "MTL")>>),
     SchedulePayload(<<Game(NoCode, "TOR"), Game("MTL", "BOS")>>)}

\* the rosters a run of main is given
RosterPayloads ==
    {RosterPayload(<<Player(IntV(1), Nested("John"), Nested("Doe"), "")>>,
                   <<Player(IntV(2), Absent, Absent, "A. Roe")>>),
     RosterPayload(<<Player(Null, Nested("Noah"), Nested("Id"), "")>>, <<>>),
     RosterPayload(<<Player(IntV(3), Plain("Jane"), Plain("Poe"), "")>>, <<>>)}

\* the game logs a run of main is given
GameLogPayloads ==
    {GameLogPayload(TRUE, <<Entry(IntV(3), NoStats), Entry(IntV(0), NoStats),
                            Entry(IntV(2), NoStats)>>),
     GameLogPayload(TRUE, <<Entry(Null, Stats(IntV(3))), Entry(StrV, Stats(IntV(1))),
                            Entry(IntV(0), NoStats)>>),
     GameLogPayload(TRUE, <<Entry(IntV(1), NoStats), Entry(Null, NoStats)>>),
     GameLogPayload(FALSE, <<>>)}

\* the club statistics a run of main is given (the values are x.get(key))
ClubStatsPayloads ==
    {ClubStatsPayload(TRUE, TRUE, <<IntV(2), Null>>, <<IntV(30), IntV(26)>>),
     ClubStatsPayload(TRUE, TRUE, <<IntV(2)>>, <<IntV(60)>>),
     ClubStatsPayload(TRUE, TRUE, <<IntV(2)>>, <<>>),
     ClubStatsPayload(TRUE, TRUE, <<IntV(0)>>, <<IntV(9)>>)}

\* ------------------------------------------------------------------------
\* The run of main
\* ------------------------------------------------------------------------
VARIABLES
    pc,            \* where main is
    matchups,      \* main: matchups
    teams,         \* main: teams
    ti,            \* position of the loop over teams
    opp_sa_cache,  \* main: opp_sa_cache
    skaters,       \* main: skaters
    pi,            \* position of the loop over skaters
    shotsN,        \* main: shotsN, the extractor's last result
    all_rows,      \* main: all_rows
    output_rows,   \* main: output_rows
    url,           \* get_json: url, NoUrl outside a call
    statuses,      \* get_json: the status codes received in this call
    backoff,       \* get_json: backoff
    wait,          \* get_json: wait, the last sleep of this call
    hdr,           \* get_json: the Retry-After header of the last 429
    naps,          \* get_json: the sleeps taken in this call
    body,          \* the payload of the last successful response
    ret,           \* what the last get_json call returned
    exc,           \* the exception that ended the run
    lastIO,        \* the last outbound event: none, sleep, backoff, request
    clubCalls,     \* calls of club_shots_against_per_game per team code
    sinkCalls,     \* calls of post_rows_to_sheets
    posted,        \* none, skipped, ok, failed: what the sink call did
    posts          \* the outcomes of the POSTs sent to the sink

vars == <<pc, matchups, teams, ti, opp_sa_cache, skaters, pi, shotsN,
          all_rows, output_rows, url, statuses, backoff, wait, hdr, naps, body,
          ret, exc, lastIO, clubCalls, sinkCalls, posted, posts>>

mainVars == <<matchups, teams, ti, opp_sa_cache, skaters, pi, shotsN, all_rows,
              output_rows>>

fetchVars == <<url, statuses, backoff, wait, hdr, naps, body, ret>>

NoUrl == [kind |-> "none", team |-> "", pid |-> 0]
Url(kind, team, pid) == [kind |-> kind, team |-> team, pid |-> pid]

NoExc == [type |-> "none", url |-> NoUrl]

NoShots == Insufficient

Statuses == {StatusOk, StatusThrottled} \cup ErrorStatuses

\* server errors are retried like a 429
Outcome_Retry5xx(s) ==
    IF s = StatusThrottled \/ s >= 500 THEN "retry"
    ELSE IF RaisesForStatus(s) THEN "raise"
    ELSE "return"

\* what get_json does with a response of status s (lines 50-58)
Outcome(s) ==
    IF s = StatusThrottled THEN "retry"
    ELSE IF RaisesForStatus(s) THEN "raise"
    ELSE "return"

\* main is inside a call of get_json
InGetJson == pc \in {"matchups", "club_fetch", "roster_fetch", "log_fetch"}

\* one request too many: range(max_retries + 1)
CanRequest_OffByOne == InGetJson /\ Len(statuses) <= max_retries

\* for _ in range(max_retries): another request is made
CanRequest == InGetJson /\ Len(statuses) < max_retries

\* the state of main before its first statement
InitMain ==
    /\ matchups = EmptyMap
    /\ teams = <<>>
    /\ ti = 1
    /\ opp_sa_cache = EmptyMap
    /\ skaters = <<>>
    /\ pi = 1
    /\ shotsN = NoShots
    /\ all_rows = <<>>
    /\ output_rows = <<>>
    /\ url = NoUrl
    /\ statuses = <<>>
    /\ backoff = BackoffStart
    /\ wait = 0
    /\ hdr = NoHeader
    /\ naps = 0
    /\ exc = NoExc
    /\ lastIO = "none"
    /\ clubCalls = [c \in Teams |-> 0]
    /\ sinkCalls = 0
    /\ posted = "none"
    /\ posts = <<>>

Init ==
    /\ pc = "start"
    /\ body = NoPayload
    /\ ret = NoPayload
    /\ InitMain

\* entry of get_json(u): backoff = 0.6, no request made yet
GetJsonCall(u) ==
    /\ url' = u
    /\ statuses' = <<>>
    /\ backoff' = BackoffStart
    /\ wait' = 0
    /\ hdr' = NoHeader
    /\ naps' = 0
    /\ body' = NoPayload
    /\ ret' = NoPayload

\* get_json is left, by return or raise: backoff, wait and the response die
DropLocals ==
    /\ backoff' = BackoffStart
    /\ wait' = 0
    /\ hdr' = NoHeader

\* a response of status s carrying payload b makes get_json return r.json()
GetJsonReturn(s, b) ==
    /\ CanRequest
    /\ Outcome(s) = "return"
    /\ statuses' = Append(statuses, s)
    /\ body' = b
    /\ ret' = b
    /\ url' = NoUrl
    /\ lastIO' = "request"
    /\ DropLocals
    /\ UNCHANGED naps

\* main calls get_matchups_today, which calls get_json on the score resource
Start ==
    /\ pc = "start"
    /\ GetJsonCall(Url("score", "", 0))
    /\ pc' = "matchups"
    /\ UNCHANGED <<mainVars, exc, lastIO, clubCalls, sinkCalls, posted, posts>>

\* a 429: sleep for wait, double the backoff, continue
Throttled ==
    /\ CanRequest
    /\ \E s \in Statuses, h \in Headers :
        /\ Outcome(s) = "retry"
        /\ statuses' = Append(statuses, s)
        /\ hdr' = h
        /\ wait' = Wait(h, backoff)
        /\ naps' = naps + 1
        /\ backoff' = NextBackoff(backoff)
    /\ lastIO' = "backoff"
    /\ UNCHANGED <<pc, mainVars, url, body, ret, exc, clubCalls,
                   sinkCalls, posted, posts>>

\* another 4xx/5xx: raise_for_status raises, nothing in main catches it
HardFailure ==
    /\ CanRequest
    /\ \E s \in Statuses :
        /\ Outcome(s) = "raise"
        /\ statuses' = Append(statuses, s)
    /\ exc' = [type |-> "HTTPError", url |-> url]
    /\ pc' = "Fatal"
    /\ lastIO' = "request"
    /\ DropLocals
    /\ UNCHANGED <<mainVars, url, naps, body, ret, clubCalls, sinkCalls, posted, posts>>

\* the loop ran max_retries times: raise RuntimeError("Failed after retries: url")
Exhausted ==
    /\ InGetJson
    /\ Len(statuses) >= max_retries
    /\ exc' = [type |-> "RuntimeError", url |-> url]
    /\ pc' = "Fatal"
    /\ DropLocals
    /\ UNCHANGED <<mainVars, url, statuses, naps, body, ret, lastIO, clubCalls,
                   sinkCalls, posted, posts>>

\* get_matchups_today returns; main stops there when the mapping is empty
MatchupsReturn ==
    /\ pc = "matchups"
    /\ \E s \in Statuses, b \in SchedulePayloads : GetJsonReturn(s, b)
    /\ matchups' = Matchups(ret'.games)
    /\ IF DOMAIN matchups' = {}
       THEN pc' = "Completed" /\ UNCHANGED teams
       ELSE pc' = "team_loop" /\ teams' = SortedKeys(matchups')
    /\ UNCHANGED <<ti, opp_sa_cache, skaters, pi, shotsN, all_rows,
                   output_rows, exc, clubCalls, sinkCalls, posted, posts>>

\* the cache is never consulted
CacheMiss_Always(opp) == TRUE

\* if opp not in opp_sa_cache
CacheMiss(opp) == opp \notin DOMAIN opp_sa_cache

\* for team in teams: the head of the loop, up to the test of the cache
TeamLoop ==
    /\ pc = "team_loop"
    /\ IF ti > Len(teams) THEN pc' = "rank"
       ELSE IF CacheMiss(matchups[teams[ti]]) THEN pc' = "club_sleep"
       ELSE pc' = "roster_call"
    /\ UNCHANGED <<mainVars, fetchVars, exc, lastIO, clubCalls,
                   sinkCalls, posted, posts>>

\* time.sleep(SLEEP_BETWEEN_CALLS) of line 218
ClubSleep ==
    /\ pc = "club_sleep"
    /\ lastIO' = "sleep"
    /\ pc' = "club_call"
    /\ UNCHANGED <<mainVars, fetchVars, exc, clubCalls, sinkCalls, posted, posts>>

\* club_shots_against_per_game(opp) calls get_json on the club-stats resource
ClubCall ==
    /\ pc = "club_call"
    /\ LET opp == matchups[teams[ti]] IN
        /\ clubCalls' = [clubCalls EXCEPT ![opp] = @ + 1]
        /\ GetJsonCall(Url("club-stats", opp, 0))
    /\ pc' = "club_fetch"
    /\ UNCHANGED <<mainVars, exc, lastIO, sinkCalls, posted, posts>>

\* opp_sa_cache[opp] = opp_sa if opp_sa is not None else LEAGUE_AVG_SA
ClubStatsReturn ==
    /\ pc = "club_fetch"
    /\ \E s \in Statuses, b \in ClubStatsPayloads : GetJsonReturn(s, b)
    /\ opp_sa_cache' = Put(opp_sa_cache, matchups[teams[ti]],
                           StrengthOrBaseline(club_shots_against_per_game(ret')))
    /\ pc' = "roster_call"
    /\ UNCHANGED <<matchups, teams, ti, skaters, pi, shotsN, all_rows,
                   output_rows, exc, clubCalls, sinkCalls, posted, posts>>

\* roster_skaters(team) calls get_json on the roster resource
RosterCall ==
    /\ pc = "roster_call"
    /\ GetJsonCall(Url("roster", teams[ti], 0))
    /\ pc' = "roster_fetch"
    /\ UNCHANGED <<mainVars, exc, lastIO, clubCalls, sinkCalls, posted, posts>>

\* roster_skaters returns the skaters, or full_name raises
RosterReturn ==
    /\ pc = "roster_fetch"
    /\ \E s \in Statuses, b \in RosterPayloads : GetJsonReturn(s, b)
    /\ LET r == roster_skaters(ret') IN
        IF r.raised
        THEN /\ exc' = [type |-> "AttributeError", url |-> NoUrl]
             /\ pc' = "Fatal"
             /\ UNCHANGED <<skaters, pi>>
        ELSE /\ skaters' = r.out
             /\ pi' = 1
             /\ pc' = "player_loop"
             /\ UNCHANGED exc
    /\ UNCHANGED <<matchups, teams, ti, opp_sa_cache, shotsN, all_rows,
                   output_rows, clubCalls, sinkCalls, posted, posts>>

\* for pid, name, pos in skaters: time.sleep(SLEEP_BETWEEN_CALLS) of line 228,
\* or the end of the roster and the next team
PlayerLoop ==
    /\ pc = "player_loop"
    /\ IF pi > Len(skaters)
       THEN ti' = ti + 1 /\ pc' = "team_loop" /\ UNCHANGED lastIO
       ELSE lastIO' = "sleep" /\ pc' = "log_call" /\ UNCHANGED ti
    /\ UNCHANGED <<matchups, teams, opp_sa_cache, skaters, pi, shotsN,
                   all_rows, output_rows, fetchVars, exc, clubCalls, sinkCalls,
                   posted, posts>>

\* lastN_shots_from_game_log(pid, n=N_GAMES) calls get_json on the game log
LogCall ==
    /\ pc = "log_call"
    /\ GetJsonCall(Url("game-log", "", skaters[pi].pid))
    /\ pc' = "log_fetch"
    /\ UNCHANGED <<mainVars, exc, lastIO, clubCalls, sinkCalls, posted, posts>>

\* an insufficient history is scored as N_GAMES games without a shot
AppendRow_ZeroPad(rows, r, sk, team, opp, opp_sa) ==
    Append(rows, Row(sk, team, opp,
                     IF r.ok THEN r.shots ELSE [i \in 1..N_GAMES |-> 0], opp_sa))

\* if shotsN is None: continue; else all_rows.append({...})
AppendRow(rows, r, sk, team, opp, opp_sa) ==
    IF ~r.ok THEN rows ELSE Append(rows, Row(sk, team, opp, r.shots, opp_sa))

\* the extractor returns; main scores the history or skips the player
GameLogReturn ==
    /\ pc = "log_fetch"
    /\ \E s \in Statuses, b \in GameLogPayloads : GetJsonReturn(s, b)
    /\ shotsN' = lastN_shots_from_game_log(ret', N_GAMES)
    /\ LET team == teams[ti]
           opp == matchups[team]
       IN all_rows' = AppendRow(all_rows, shotsN', skaters[pi], team, opp,
                                opp_sa_cache[opp])
    /\ pi' = pi + 1
    /\ pc' = "player_loop"
    /\ UNCHANGED <<matchups, teams, ti, opp_sa_cache, skaters,
                   output_rows, exc, clubCalls, sinkCalls, posted, posts>>

\* the shortlists of lines 262-306
Rank ==
    /\ pc = "rank"
    /\ output_rows' = OutputRows(all_rows)
    /\ pc' = "post"
    /\ UNCHANGED <<matchups, teams, ti, opp_sa_cache, skaters, pi, shotsN,
                   all_rows, fetchVars, exc, lastIO, clubCalls, sinkCalls, posted, posts>>

\* what SESSION.post and r.raise_for_status can meet: a request error (no
\* response), or a response with its status
SinkStatuses == {200, 304} \cup ErrorStatuses

SinkResponses ==
    {[error |-> TRUE, status |-> 0]}
    \cup {[error |-> FALSE, status |-> s] : s \in SinkStatuses}

\* SESSION.post or r.raise_for_status() raises
SinkRaises(r) == r.error \/ RaisesForStatus(r.status)

\* post_rows_to_sheets: no POST when the webhook is not configured, else the
\* POST sent once, with the response r
SinkCall(configured, r) ==
    IF ~configured
    THEN posted' = "skipped" /\ posts' = posts
    ELSE /\ posts' = Append(posts, r)
         /\ posted' = IF SinkRaises(r) THEN "failed" ELSE "ok"

\* the rows collected so far are posted after a fatal failure too
Post_Partial ==
    /\ pc \in {"post", "Fatal"}
    /\ sinkCalls' = sinkCalls + 1
    /\ \E configured \in BOOLEAN, r \in SinkResponses : SinkCall(configured, r)
    /\ pc' = "Completed"
    /\ UNCHANGED <<mainVars, fetchVars, exc, lastIO, clubCalls>>

\* a POST that fails is sent a second time
Post_Retry ==
    /\ pc = "post"
    /\ sinkCalls' = sinkCalls + 1
    /\ \E configured \in BOOLEAN, r \in SinkResponses, r2 \in SinkResponses :
        IF configured /\ SinkRaises(r)
        THEN /\ posts' = Append(Append(posts, r), r2)
             /\ posted' = IF SinkRaises(r2) THEN "failed" ELSE "ok"
        ELSE SinkCall(configured, r)
    /\ pc' = "Completed"
    /\ UNCHANGED <<mainVars, fetchVars, exc, lastIO, clubCalls>>

\* try: post_rows_to_sheets(output_rows) except Exception as e: print(...)
Post ==
    /\ pc = "post"
    /\ sinkCalls' = sinkCalls + 1
    /\ \E configured \in BOOLEAN, r \in SinkResponses : SinkCall(configured, r)
    /\ pc' = "Completed"
    /\ UNCHANGED <<mainVars, fetchVars, exc, lastIO, clubCalls>>

Next ==
    \/ Start
    \/ Throttled
    \/ HardFailure
    \/ Exhausted
    \/ MatchupsReturn
    \/ TeamLoop
    \/ ClubSleep
    \/ ClubCall
    \/ ClubStatsReturn
    \/ RosterCall
    \/ RosterReturn
    \/ PlayerLoop
    \/ LogCall
    \/ GameLogReturn
    \/ Rank
    \/ Post

Spec == Init /\ [][Next]_vars

\* main is one thread that runs each statement to its end: a step that can
\* be taken is taken
FairSpec == Spec /\ WF_vars(Next)

\* every run of main ends, Completed or Fatal
Termination == <>(pc \in {"Completed", "Fatal"})

\* ------------------------------------------------------------------------
\* get_matchups_today on every schedule: the payload is ret, the mapping
\* built from it is matchups
\* ------------------------------------------------------------------------
GameDescriptors == {Game(h, a) : h \in Codes, a \in Codes}

GameLists == UNION {[1..k -> GameDescriptors] : k \in 0..MaxGames}

InitResolve ==
    /\ pc = "resolve"
    /\ ret \in {SchedulePayload(gs) : gs \in GameLists}
    /\ body = ret
    /\ InitMain

\* lines 96-105 on data = ret
Resolve ==
    /\ pc = "resolve"
    /\ matchups' = Matchups(ret.games)
    /\ pc' = "resolved"
    /\ UNCHANGED <<teams, ti, opp_sa_cache, skaters, pi, shotsN, all_rows,
                   output_rows, fetchVars, exc, lastIO, clubCalls, sinkCalls, posted, posts>>

NextResolve == Resolve

SpecMatchups == InitResolve /\ [][NextResolve]_vars

\* ------------------------------------------------------------------------
\* lastN_shots_from_game_log and the scoring step of main on every game
\* log: the payload is ret, the history is shotsN, the record goes to all_rows
\* ------------------------------------------------------------------------
ShotFields == {Null, IntV(0), IntV(3), StrV}

StatsFields == {NoStats, Stats(Null), Stats(IntV(1))}

LogEntries == {Entry(s, st) : s \in ShotFields, st \in StatsFields}

GameLogs == UNION {[1..k -> LogEntries] : k \in 0..MaxLog}

AllGameLogPayloads ==
    {GameLogPayload(TRUE, log) : log \in GameLogs} \cup {GameLogPayload(FALSE, <<>>)}

\* the skater whose log is read: BOS against MTL, MTL at the baseline
InitExtract ==
    /\ pc = "extract"
    /\ ret \in AllGameLogPayloads
    /\ body = ret
    /\ matchups = Matchups(<<Game("BOS", "MTL")>>)
    /\ teams = <<"BOS", "MTL">>
    /\ ti = 1
    /\ opp_sa_cache = Put(EmptyMap, "MTL", LEAGUE_AVG_SA)
    /\ skaters = <<[pid |-> 1, name |-> <<"John", "Doe">>, pos |-> "F"]>>
    /\ pi = 1
    /\ shotsN = NoShots
    /\ all_rows = <<>>
    /\ output_rows = <<>>
    /\ url = NoUrl
    /\ statuses = <<>>
    /\ backoff = BackoffStart
    /\ wait = 0
    /\ hdr = NoHeader
    /\ naps = 0
    /\ exc = NoExc
    /\ lastIO = "none"
    /\ clubCalls = [c \in Teams |-> 0]
    /\ sinkCalls = 0
    /\ posted = "none"
    /\ posts = <<>>

\* lines 137-156 on data = ret, then lines 231-260 of main
Extract ==
    /\ pc = "extract"
    /\ shotsN' = lastN_shots_from_game_log(ret, N_GAMES)
    /\ LET team == teams[ti]
           opp == matchups[team]
       IN all_rows' = AppendRow(all_rows, shotsN', skaters[pi], team, opp,
                                opp_sa_cache[opp])
    /\ pi' = pi + 1
    /\ pc' = "extracted"
    /\ UNCHANGED <<matchups, teams, ti, opp_sa_cache, skaters, output_rows,
                   fetchVars, exc, lastIO, clubCalls, sinkCalls, posted, posts>>

NextExtract == Extract

SpecGameLog == InitExtract /\ [][NextExtract]_vars

\* ------------------------------------------------------------------------
\* The scoring and ranking steps of main on rosters of up to MaxRows
\* qualifying skaters: BOS plays MTL, the records of BOS are appended before
\* those of MTL, and output_rows is built from all_rows
\* ------------------------------------------------------------------------
MaxRows == 6

\* N_GAMES games with 2 shots each
Steady == [i \in 1..N_GAMES |-> 2]

\* 4 shots in the latest game and 1 in each game before
Streaky == [i \in 1..N_GAMES |-> IF i = 1 THEN 4 ELSE 1]

Histories == {Steady, Streaky}

\* MTL allowed 1529 shots in 52 games; the stats of BOS were not available
InitRank ==
    /\ pc = "collect"
    /\ matchups = Matchups(<<Game("BOS", "MTL")>>)
    /\ teams = <<"BOS", "MTL">>
    /\ ti = 1
    /\ opp_sa_cache = Put(Put(EmptyMap, "MTL", Ratio(1529, 52)), "BOS", LEAGUE_AVG_SA)
    /\ skaters = <<>>
    /\ pi = 1
    /\ shotsN = NoShots
    /\ all_rows = <<>>
    /\ output_rows = <<>>
    /\ url = NoUrl
    /\ statuses = <<>>
    /\ backoff = BackoffStart
    /\ wait = 0
    /\ hdr = NoHeader
    /\ naps = 0
    /\ body = NoPayload
    /\ ret = NoPayload
    /\ exc = NoExc
    /\ lastIO = "none"
    /\ clubCalls = [c \in Teams |-> 0]
    /\ sinkCalls = 0
    /\ posted = "none"
    /\ posts = <<>>

\* lines 231-260 for the next skater of the current team or of the team after
\* it, with the history h
Collect ==
    /\ pc = "collect"
    /\ Len(all_rows) < MaxRows
    /\ \E t \in {ti, ti + 1} \cap (1..Len(teams)), pos \in {"F", "D"}, h \in Histories :
        /\ ti' = t
        /\ shotsN' = [ok |-> TRUE, shots |-> h]
        /\ LET team == teams[t]
               opp == matchups[team]
               sk == [pid |-> Len(all_rows) + 1, name |-> <<"Skater">>, pos |-> pos]
           IN all_rows' = AppendRow(all_rows, shotsN', sk, team, opp,
                                    opp_sa_cache[opp])
    /\ UNCHANGED <<pc, matchups, teams, opp_sa_cache, skaters, pi, output_rows,
                   fetchVars, exc, lastIO, clubCalls, sinkCalls, posted, posts>>

\* lines 262-306 once the team loop has ended
RankRows ==
    /\ pc = "collect"
    /\ output_rows' = OutputRows(all_rows)
    /\ pc' = "ranked"
    /\ UNCHANGED <<matchups, teams, ti, opp_sa_cache, skaters, pi, shotsN,
                   all_rows, fetchVars, exc, lastIO, clubCalls, sinkCalls, posted, posts>>

NextRank == Collect \/ RankRows

SpecRank == InitRank /\ [][NextRank]_vars

\* ------------------------------------------------------------------------
\* Line 223 of main on every opponent strength and every LEAGUE_AVG_SA the
\* environment can set, zero and negative values included: body holds the two
\* inputs, ret the boost computed from them
\* ------------------------------------------------------------------------
MaxStrength == 3

Strengths == {Ratio(n, d) : n \in (-1)..MaxStrength, d \in 1..2}

InitBoost ==
    /\ pc = "boost"
    /\ body \in {[kind |-> "strength", opp_sa |-> s, league_avg |-> a] :
                    s \in Strengths, a \in Strengths}
    /\ ret = NoPayload
    /\ InitMain

\* boost = (opp_sa / LEAGUE_AVG_SA) if LEAGUE_AVG_SA > 0 else 1.0
Boost ==
    /\ pc = "boost"
    /\ ret' = [kind |-> "boost", value |-> boost(body.opp_sa, body.league_avg)]
    /\ pc' = "boosted"
    /\ UNCHANGED <<mainVars, url, statuses, backoff, wait, hdr, naps, body,
                   exc, lastIO, clubCalls, sinkCalls, posted, posts>>

NextBoost == Boost

SpecBoost == InitBoost /\ [][NextBoost]_vars

\* ------------------------------------------------------------------------
\* club_shots_against_per_game and lines 219-223 of main on every club-stats
\* payload of up to MaxClub skaters and MaxClub goalies: BOS plays MTL, the
\* payload of MTL is ret, and the strength main stores is opp_sa_cache["MTL"]
\* ------------------------------------------------------------------------
MaxClub == 2

\* x.get("gamesPlayed") of a skater, x.get("shotsAgainst") of a goalie
GamesPlayedFields == {Null, StrV, IntV(0), IntV(2)}

ShotsAgainstFields == {Null, IntV(26), IntV(30)}

ListsOf(S) == UNION {[1..k -> S] : k \in 0..MaxClub}

AllClubStatsPayloads ==
    {ClubStatsPayload(TRUE, TRUE, gps, sas) :
        gps \in ListsOf(GamesPlayedFields), sas \in ListsOf(ShotsAgainstFields)}
    \cup {ClubStatsPayload(FALSE, TRUE, <<>>, sas) : sas \in ListsOf(ShotsAgainstFields)}
    \cup {ClubStatsPayload(TRUE, FALSE, gps, <<>>) : gps \in ListsOf(GamesPlayedFields)}

InitClub ==
    /\ pc = "club"
    /\ ret \in AllClubStatsPayloads
    /\ body = ret
    /\ matchups = Matchups(<<Game("BOS", "MTL")>>)
    /\ teams = <<"BOS", "MTL">>
    /\ ti = 1
    /\ opp_sa_cache = EmptyMap
    /\ skaters = <<>>
    /\ pi = 1
    /\ shotsN = NoShots
    /\ all_rows = <<>>
    /\ output_rows = <<>>
    /\ url = NoUrl
    /\ statuses = <<>>
    /\ backoff = BackoffStart
    /\ wait = 0
    /\ hdr = NoHeader
    /\ naps = 0
    /\ exc = NoExc
    /\ lastIO = "none"
    /\ clubCalls = [c \in Teams |-> 0]
    /\ sinkCalls = 0
    /\ posted = "none"
    /\ posts = <<>>

\* lines 169-187 on data = ret, then line 220 of main
ClubStats ==
    /\ pc = "club"
    /\ opp_sa_cache' = Put(opp_sa_cache, matchups[teams[ti]],
                           StrengthOrBaseline(club_shots_against_per_game(ret)))
    /\ pc' = "club_done"
    /\ UNCHANGED <<matchups, teams, ti, skaters, pi, shotsN, all_rows,
                   output_rows, fetchVars, exc, lastIO, clubCalls, sinkCalls, posted, posts>>

NextClub == ClubStats

SpecClubStats == InitClub /\ [][NextClub]_vars

\* ------------------------------------------------------------------------
\* Claims
\* ------------------------------------------------------------------------

\* C1: in a run of main, club_shots_against_per_game is called at most once
\* per team code; a code is in opp_sa_cache only after its one call, the value
\* stored is the computed strength or else the baseline, and every record of
\* a team facing that code carries the stored value.
C1_ClubStatsOncePerOpponent ==
    /\ \A c \in Teams : clubCalls[c] <= 1
    /\ \A c \in DOMAIN opp_sa_cache : clubCalls[c] = 1
    /\ \A i \in 1..Len(all_rows) :
          /\ all_rows[i].Opp \in DOMAIN opp_sa_cache
          /\ all_rows[i].OppSA = opp_sa_cache[all_rows[i].Opp]
    /\ (pc = "roster_call" /\ ret.kind = "clubstats") =>
          LET r == club_shots_against_per_game(ret) IN
          opp_sa_cache[matchups[teams[ti]]] =
              IF r.ok THEN r.value ELSE [num |-> 28, den |-> 1]

\* two teams facing the same opponent were scored from its one fetch
C1_Witness ==
    /\ pc = "Completed"
    /\ \E i, j \in 1..Len(all_rows) :
          /\ all_rows[i].Team # all_rows[j].Team
          /\ all_rows[i].Opp = all_rows[j].Opp
          /\ clubCalls[all_rows[i].Opp] = 1

\* C2: the sink is called at most once, only when the loop over the teams
\* has finished; a run ended by a failed fetch has made no call to the sink
\* and makes no further step.
C2_SinkOnceNoPartialDelivery ==
    /\ sinkCalls <= 1
    /\ sinkCalls = 1 => (pc = "Completed" /\ ti > Len(teams) /\ exc = NoExc)
    /\ pc = "Fatal" => (sinkCalls = 0 /\ posted = "none" /\ ~ENABLED Next)

\* a fetch failed after records of an earlier player had been collected
C2_Witness ==
    /\ pc = "Fatal"
    /\ exc.type \in {"HTTPError", "RuntimeError"}
    /\ Len(all_rows) > 0
    /\ sinkCalls = 0

\* C3: within one call of get_json every response before the last is a 429
\* and each 429 is followed by one sleep; a 4xx/5xx other than 429, at any
\* attempt, ends the call and the run with an HTTP error, with no sleep after
\* it and no payload returned; a response below 400, at any attempt, makes
\* the call return that response's payload.
C3_RetryOnlyOn429 ==
    LET n == Len(statuses) IN
    /\ \A i \in 1..(n - 1) : statuses[i] = 429
    /\ naps = Cardinality({i \in 1..n : statuses[i] = 429})
    /\ (n > 0 /\ statuses[n] >= 400 /\ statuses[n] < 600 /\ statuses[n] # 429) =>
          /\ pc = "Fatal"
          /\ exc.type = "HTTPError"
          /\ naps = n - 1
          /\ lastIO = "request"
          /\ ret = NoPayload
    /\ (n > 0 /\ statuses[n] < 400) =>
          /\ ~InGetJson
          /\ ret = body
          /\ ret # NoPayload

\* a server error at the third attempt, after two throttled ones
C3_Witness ==
    /\ Len(statuses) = 3
    /\ statuses[3] = 503
    /\ pc = "Fatal"

\* C4: a call of get_json makes at most 7 requests; the "Failed after
\* retries" error is raised exactly when 7 responses, all 429, were received,
\* and it names the URL of the call.
C4_AtMostSevenRequests ==
    [][/\ Len(statuses') <= 7
       /\ exc'.type = "RuntimeError" =>
             /\ Len(statuses') = 7
             /\ \A i \in 1..7 : statuses'[i] = 429
             /\ exc'.url = url' /\ url' # NoUrl
       /\ (InGetJson /\ Len(statuses) = 7) =>
             /\ exc'.type = "RuntimeError"
             /\ pc' = "Fatal"]_vars

\* the run ended on the seventh 429
C4_Witness ==
    /\ pc = "Fatal"
    /\ exc.type = "RuntimeError"
    /\ Len(statuses) = 7

\* C5 (as claimed): a run ends Completed or Fatal, and Fatal only because a
\* fetch exhausted its retries or got a 4xx/5xx other than 429.
C5_Claim ==
    /\ pc \in {"Completed", "Fatal"} \/ ENABLED Next
    /\ pc = "Completed" => exc = NoExc
    /\ pc = "Fatal" => exc.type \in {"RuntimeError", "HTTPError"}

\* C6 (as claimed): the sleep after the k-th consecutive 429 is the
\* Retry-After hint whenever the upstream gives one, else min(0.6 * 2^(k-1), 12).
C6_Claim ==
    LET k == Len(statuses) IN
    (InGetJson /\ k >= 1) =>
        wait = IF hdr.present /\ Len(hdr.text) > 0 THEN hdr.delay
               ELSE Min(60 * 2 ^ (k - 1), 1200)

\* C6 (amended): the sleep after the k-th consecutive 429 is the Retry-After
\* value when the header is a non-empty string of decimal digits, and in
\* every other case (no header, or one in another form such as an HTTP-date)
\* min(0.6 * 2^(k-1), 12); the tracked backoff starts at 0.6, doubles after
\* each 429 and never exceeds 12.
C6_SleepIsDigitHintOrBackoff ==
    LET k == Len(statuses)
        digits == {"0", "1", "2", "3", "4", "5", "6", "7", "8", "9"}
        isDigits == /\ hdr.present
                    /\ Len(hdr.text) > 0
                    /\ \A i \in 1..Len(hdr.text) : hdr.text[i] \in digits
    IN InGetJson =>
        /\ backoff = Min(60 * 2 ^ k, 1200)
        /\ k >= 1 => wait = IF isDigits THEN hdr.delay ELSE Min(60 * 2 ^ (k - 1), 1200)

\* the sixth 429 carries an HTTP-date: the sleep is the capped backoff
C6_Witness ==
    /\ InGetJson
    /\ Len(statuses) = 6
    /\ hdr = HeaderDate
    /\ wait = 1200

\* C7 (as claimed): every call of get_json is entered right after a sleep of
\* SLEEP_BETWEEN_CALLS, with no request between the sleep and the call.
C7_Claim == [][(~InGetJson /\ InGetJson') => lastIO = "sleep"]_vars

\* C8 (as claimed): the mapping is symmetric for every list of descriptors.
C8_Claim ==
    pc = "resolved" =>
        \A a \in DOMAIN matchups :
            matchups[a] \in DOMAIN matchups /\ matchups[matchups[a]] = a

\* C8 (amended): the mapping is symmetric for every list of descriptors in
\* which no team code appears in more than one descriptor that has both
\* codes; its keys are then the codes of those descriptors.
C8_SymmetricWhenOneGamePerTeam ==
    LET gs == ret.games
        complete == {i \in 1..Len(gs) : gs[i].homeTeam # "" /\ gs[i].awayTeam # ""}
        sides(i) == {gs[i].homeTeam, gs[i].awayTeam}
    IN (/\ pc = "resolved"
        /\ \A i, j \in complete : i # j => sides(i) \cap sides(j) = {}) =>
           /\ DOMAIN matchups = UNION {sides(i) : i \in complete}
           /\ \A a \in DOMAIN matchups :
                 matchups[a] \in DOMAIN matchups /\ matchups[matchups[a]] = a

\* two games between four different teams
C8_Witness ==
    /\ pc = "resolved"
    /\ Cardinality(DOMAIN matchups) = 4
    /\ \A a \in DOMAIN matchups : matchups[a] # a /\ matchups[matchups[a]] = a

\* the positions of a game log that hold an integer shot value
ValidAt(log) == {i \in 1..Len(log) : ShotValue(log[i]).t = "int"}

\* the position of the j-th of them
NthValid(log, j) ==
    CHOOSE i \in ValidAt(log) : Cardinality({x \in ValidAt(log) : x <= i}) = j

C10_InsufficientPlayerSkipped ==
    [][(/\ pc = "log_fetch"
        /\ ret'.kind = "gamelog"
        /\ ~ret'.isList \/ Cardinality(ValidAt(ret'.gameLog)) < N_GAMES) =>
           /\ ~shotsN'.ok
           /\ all_rows' = all_rows
           /\ exc' = NoExc
           /\ pc' = "player_loop"
           /\ pi' = pi + 1
           /\ UNCHANGED <<matchups, teams, ti, skaters, opp_sa_cache>>]_vars

\* the roster's first player was skipped and its second is still to come
C10_Witness ==
    /\ pc = "player_loop"
    /\ ret.kind = "gamelog"
    /\ ~shotsN.ok
    /\ pi = 2
    /\ Len(skaters) = 2
    /\ exc = NoExc

\* no descriptor of gs passes `if home and away`
NoCompleteGame(gs) ==
    \A i \in 1..Len(gs) : gs[i].homeTeam = NoCode \/ gs[i].awayTeam = NoCode

\* C11: once the schedule has been returned with no game that has both team
\* codes, the mapping is empty and the run is Completed and stays there: no
\* record collected or emitted, no club-stats, roster or game-log fetch made
\* (the schedule is still the last payload received and no get_json call is
\* open), the sink not called, and no error raised.
C11_NoGamesCompletesWithoutFetching ==
    (ret.kind = "score" /\ NoCompleteGame(ret.games)) =>
        /\ DOMAIN matchups = {}
        /\ pc = "Completed"
        /\ ~ENABLED Next
        /\ exc = NoExc
        /\ all_rows = <<>> /\ output_rows = <<>>
        /\ \A c \in Teams : clubCalls[c] = 0
        /\ url = NoUrl /\ body = ret
        /\ skaters = <<>>
        /\ sinkCalls = 0 /\ posted = "none"

\* the schedule held one game, with its away code missing
C11_Witness ==
    /\ pc = "Completed"
    /\ ret.kind = "score"
    /\ Len(ret.games) = 1
    /\ ret.games[1].homeTeam # NoCode
    /\ ret.games[1].awayTeam = NoCode
    /\ DOMAIN matchups = {}

\* the records of one team and position group, in the order of rows
RowsOf(rows, team, pos) == SelectSeq(rows, LAMBDA r : r.Team = team /\ r.Pos = pos)

\* forwards[:4], defense[:1]
Cap(pos) == IF pos = "F" THEN TopForwards ELSE TopDefense

Groups == {"F", "D"}

\* C12: once main has ranked, output_rows holds for every team at most 4
\* forwards and at most 1 defenseman and, for each group, no more records than
\* the team's qualifying records of that group; every record of output_rows is
\* one of all_rows, none is there twice, and the shortlist built for a team
\* holds records of that team only, its forwards before its defenseman.
C12_ShortlistBoundedNeverPadded ==
    pc = "ranked" =>
        /\ \A team \in Teams, pos \in Groups :
            /\ Len(RowsOf(output_rows, team, pos)) <= Cap(pos)
            /\ Len(RowsOf(output_rows, team, pos)) <= Len(RowsOf(all_rows, team, pos))
        /\ \A i \in 1..Len(output_rows) :
            /\ \E j \in 1..Len(all_rows) : all_rows[j] = output_rows[i]
            /\ \A j \in 1..Len(output_rows) : output_rows[j] = output_rows[i] => j = i
        /\ \A team \in Teams :
            LET sl == Shortlist(all_rows, team) IN
            /\ \A i \in 1..Len(sl) : sl[i].Team = team
            /\ \A i, j \in 1..Len(sl) : (sl[i].Pos = "D" /\ sl[j].Pos = "F") => j < i

\* BOS had five forwards and four were kept; MTL had one forward and no
\* defenseman, and its shortlist is that forward alone
C12_Witness ==
    /\ pc = "ranked"
    /\ Len(RowsOf(all_rows, "BOS", "F")) = 5
    /\ Len(RowsOf(output_rows, "BOS", "F")) = 4
    /\ Len(RowsOf(all_rows, "MTL", "F")) = 1
    /\ Len(RowsOf(all_rows, "MTL", "D")) = 0
    /\ Len(Shortlist(all_rows, "MTL")) = 1
    /\ Len(output_rows) = 5

IsSquare(x) == ISqrt(x) * ISqrt(x) = x

\* n + sqrt(c) > sqrt(a) for an integer n and naturals c and a, in integers
RootAbove(n, c, a) ==
    IF IsSquare(c) /\ IsSquare(a) THEN n + ISqrt(c) > ISqrt(a)
    ELSE IF n >= 0
         THEN LET t == a - c - n * n IN t < 0 \/ 4 * n * n * c > t * t
         ELSE LET t == c - a - n * n IN t > 0 /\ t * t > 4 * n * n * a

\* the score2 of line 242 for the record r, before round(score2, 4): with
\* boost = p / q and sdN = sqrt(v) / n, 20 * q * n * score2 is root.x - sqrt(root.y)
score2(r) ==
    LET b == boost(r.OppSA, LEAGUE_AVG_SA) IN
    [x |-> 20 * b.num * Sum(r.shots) + 12 * b.den * Count(r.shots, 2),
     y |-> 9 * b.den * b.den * VarianceN2(r.shots)]

\* score2 of r1 > score2 of r2, for two records of one team
score2Above(r1, r2) ==
    RootAbove(score2(r1).x - score2(r2).x, score2(r2).y, score2(r1).y)

\* r1["Score2"] > r2["Score2"]
Score2Above(r1, r2) == r1.Score2 > r2.Score2

\* where the record r stands in rows
Index(rows, r) == CHOOSE i \in 1..Len(rows) : rows[i] = r

\* the records output_rows keeps of every team and group are the highest of
\* the group, in descending order, ties in roster order, by the Score2 field
\* when rounded is TRUE and by the unrounded score2 when it is FALSE
RankedBy(rounded) ==
    \A team \in Teams, pos \in Groups :
        LET Above(r1, r2) == IF rounded THEN Score2Above(r1, r2) ELSE score2Above(r1, r2)
            all == RowsOf(all_rows, team, pos)
            kept == RowsOf(output_rows, team, pos)
            Kept == {kept[i] : i \in 1..Len(kept)}
        IN /\ Len(kept) = Min(Cap(pos), Len(all))
           /\ \A i \in 1..Len(kept) - 1 : ~Above(kept[i + 1], kept[i])
           /\ \A i \in 1..Len(all), j \in 1..Len(kept) :
                all[i] \notin Kept => ~Above(all[i], kept[j])
           /\ \A i, j \in 1..Len(all) :
                (i < j /\ ~Above(all[i], all[j]) /\ ~Above(all[j], all[i])) =>
                    /\ all[j] \in Kept => all[i] \in Kept
                    /\ all[j] \in Kept => Index(kept, all[i]) < Index(kept, all[j])

\* C13 as stated: for every team and group the records kept are the highest
\* by the unrounded score2, in descending order of it, no dropped record has
\* a strictly higher unrounded score2 than a kept one, and records of equal
\* unrounded score2 keep their roster order.
C13_Claim == pc = "ranked" => RankedBy(FALSE)

\* C13: for every team and group the records kept are the highest by the
\* record's Score2 field, which is score2 rounded to 4 decimals, in descending
\* order of it: no dropped record has a strictly higher Score2 than a kept
\* one, and records of equal Score2 keep their roster order, a kept one never
\* coming after a dropped one.
C13_KeptAreHighestByRoundedScore2 == pc = "ranked" => RankedBy(TRUE)

\* six forwards of MTL: the first of the roster has the lowest Score2 and is
\* dropped, the last ties with the four kept and is dropped as the later one
C13_Witness ==
    /\ pc = "ranked"
    /\ Len(RowsOf(all_rows, "MTL", "F")) = MaxRows
    /\ all_rows[1].shots = Streaky
    /\ \A i \in 2..MaxRows : all_rows[i].shots = Steady
    /\ all_rows[1].Score2 < all_rows[2].Score2
    /\ Len(output_rows) = TopForwards
    /\ \A i \in 1..TopForwards : output_rows[i] = all_rows[i + 1]

\* C14 as stated: whatever the opponent strength and the baseline, a
\* non-positive baseline included, the boost is 1.0 if and only if the
\* opponent strength equals the baseline.
C14_Claim ==
    pc = "boosted" => (ret.value = One <=> body.opp_sa = body.league_avg)

\* C14: for a positive baseline the boost is 1.0 if and only if the opponent
\* strength equals the baseline; for a zero or negative baseline the boost is
\* 1.0 whatever the opponent strength.
C14_BoostOneIffBaselineWhenPositive ==
    pc = "boosted" =>
        /\ body.league_avg.num > 0 =>
              (ret.value = One <=> body.opp_sa = body.league_avg)
        /\ body.league_avg.num <= 0 => ret.value = One

\* a baseline of zero and an opponent strength of 3: the boost is 1.0
C14_Witness ==
    /\ pc = "boosted"
    /\ body.league_avg.num = 0
    /\ body.opp_sa = Ratio(MaxStrength, 1)
    /\ ret.value = One

\* the payload has no skater or no goalie, no skater with an integer
\* gamesPlayed, or no skater with a positive one
NoGamesPlayed(data) ==
    \/ Len(data.skaters) = 0
    \/ Len(data.goalies) = 0
    \/ Len(IntVals(data.skaters)) = 0
    \/ MaxOf(IntVals(data.skaters)) <= 0

\* C15: when the club-stats payload has an empty skater or goalie collection,
\* no skater with an integer gamesPlayed, or a largest gamesPlayed of zero or
\* less, club_shots_against_per_game returns None and raises nothing, main
\* stores LEAGUE_AVG_SA as the opponent's strength, and the boost of the team
\* facing that opponent is exactly 1.0.
C15_NoGamesPlayedFallsBackToBaseline ==
    (pc = "club_done" /\ NoGamesPlayed(ret)) =>
        /\ ~club_shots_against_per_game(ret).ok
        /\ exc = NoExc
        /\ opp_sa_cache[matchups[teams[ti]]] = LEAGUE_AVG_SA
        /\ boost(opp_sa_cache[matchups[teams[ti]]], LEAGUE_AVG_SA) = One

\* the only skater has played no game while a goalie has faced 30 shots
C15_Witness ==
    /\ pc = "club_done"
    /\ ret.skaters = <<IntV(0)>>
    /\ ret.goalies = <<IntV(30)>>
    /\ opp_sa_cache["MTL"] = LEAGUE_AVG_SA

\* C16 (as claimed): within get_json the step that follows a sleep taken after
\* a 429 is another request of the same call, to the same url: the call
\* never sleeps and then fails without having retried.
C16_Claim ==
    [][(InGetJson /\ lastIO = "backoff") =>
          /\ Len(statuses') = Len(statuses) + 1
          /\ url' \in {url, NoUrl}
          /\ exc'.type # "RuntimeError"]_vars

\* the primary shots field when it holds an integer, else the shots field of
\* skaterStats
IntegerPrimaryElseNested(g) ==
    IF IsInt(g.shots) THEN g.shots
    ELSE IF g.skaterStats.isDict THEN g.skaterStats.shots ELSE Null

\* the primary shots field unless it is null or absent, else the shots field
\* of skaterStats
PresentPrimaryElseNested(g) ==
    IF g.shots # Null THEN g.shots
    ELSE IF g.skaterStats.isDict THEN g.skaterStats.shots ELSE Null

\* the j-th position of S
Nth(S, j) == CHOOSE i \in S : Cardinality({x \in S : x <= i}) = j

\* the extractor counts for each entry the value Pick gives when that is an
\* integer and skips the entry otherwise: the history is the first N_GAMES
\* values so counted, and None when there are fewer.  Pick is
\* IntegerPrimaryElseNested when asClaimed is TRUE, PresentPrimaryElseNested
\* when it is FALSE
ExtractsBy(asClaimed) ==
    LET Pick(g) == IF asClaimed THEN IntegerPrimaryElseNested(g)
                   ELSE PresentPrimaryElseNested(g)
        log == ret.gameLog
        S == {i \in 1..Len(log) : IsInt(Pick(log[i]))}
    IN IF ret.isList /\ Cardinality(S) >= N_GAMES
       THEN /\ shotsN.ok
            /\ Len(shotsN.shots) = N_GAMES
            /\ \A j \in 1..N_GAMES : shotsN.shots[j] = Pick(log[Nth(S, j)]).v
       ELSE ~shotsN.ok

\* C17 as stated: for each game-log entry the extractor takes the primary
\* shots field if it is an integer, otherwise the skaterStats shots field if
\* that is an integer, and skips the entry only when neither holds an integer.
C17_Claim == pc = "extracted" => ExtractsBy(TRUE)

\* C17: for each game-log entry the extractor looks at the primary shots
\* field unless it is null or absent, and at the skaterStats shots field only
\* then; it counts the value looked at when that is an integer and skips the
\* entry otherwise, so an entry whose primary field holds a value that is
\* neither null nor an integer is skipped whatever skaterStats holds.  A null
\* or absent value is never counted as zero.
C17_NestedOnlyWhenPrimaryIsNull == pc = "extracted" => ExtractsBy(FALSE)

\* the first entry has a string as primary field and is skipped although its
\* skaterStats holds 1; the second is counted from skaterStats, the third
\* from its primary field
C17_Witness ==
    /\ pc = "extracted"
    /\ ret.isList
    /\ ret.gameLog = <<Entry(StrV, Stats(IntV(1))), Entry(Null, Stats(IntV(1))),
                       Entry(IntV(3), NoStats)>>
    /\ shotsN.ok
    /\ shotsN.shots = <<1, 3>>

\* C18: a game descriptor that lacks the home or the away code adds no entry
\* to the mapping and raises nothing, and every descriptor that has both is
\* processed whatever stands before it: the keys of the mapping are the codes
\* of the descriptors that have both, and each such descriptor's two entries
\* are in the mapping unless a later descriptor with both codes names the
\* same team.
C18_HalfGameSkippedOthersEntered ==
    pc = "resolved" =>
        LET gs == ret.games
            complete == {i \in 1..Len(gs) :
                            gs[i].homeTeam # NoCode /\ gs[i].awayTeam # NoCode}
            later(i, c) == \E j \in complete :
                              j > i /\ c \in {gs[j].homeTeam, gs[j].awayTeam}
        IN /\ exc = NoExc
           /\ DOMAIN matchups = UNION {{gs[i].homeTeam, gs[i].awayTeam} : i \in complete}
           /\ \A i \in complete :
                /\ ~later(i, gs[i].homeTeam) => matchups[gs[i].homeTeam] = gs[i].awayTeam
                /\ ~later(i, gs[i].awayTeam) => matchups[gs[i].awayTeam] = gs[i].homeTeam

\* BOS has no opponent code and is not entered; the game after it, MTL at
\* TOR, is entered both ways
C18_Witness ==
    /\ pc = "resolved"
    /\ ret.games = <<Game("BOS", NoCode), Game("TOR", "MTL")>>
    /\ DOMAIN matchups = {"MTL", "TOR"}
    /\ matchups["TOR"] = "MTL"
    /\ matchups["MTL"] = "TOR"

\* the name a field gives whatever its shape: the default of a nested object,
\* the plain string itself, nothing when the field is absent
NameOfAnyShape(f) == IF f.shape \in {"nested", "plain"} THEN f.text ELSE ""

\* first + last, else fullName, else "Unknown"
DisplayName(p) ==
    LET joined == JoinNames(NameOfAnyShape(p.firstName), NameOfAnyShape(p.lastName)) IN
    IF joined # <<>> THEN joined
    ELSE IF p.fullName # "" THEN <<p.fullName>>
    ELSE <<"Unknown">>

\* the entries of one roster group with an integer id, under DisplayName
RECURSIVE NamedGroup(_, _)
NamedGroup(ps, pos) ==
    IF Len(ps) = 0 THEN <<>>
    ELSE (IF IsInt(Head(ps).id)
          THEN <<[pid |-> Head(ps).id.v, name |-> DisplayName(Head(ps)), pos |-> pos]>>
          ELSE <<>>) \o NamedGroup(Tail(ps), pos)

\* C19 (as claimed): once a roster has been returned, roster_skaters has
\* raised nothing and has given main one entry for every forward and every
\* defenseman with an integer id, and no other entry, each with the display
\* name first + last, else fullName, else "Unknown", whether the name fields
\* are nested objects, plain strings or absent.
C19_Claim ==
    ret.kind = "roster" =>
        /\ exc.type \notin {"AttributeError", "TypeError"}
        /\ skaters = NamedGroup(ret.forwards, "F") \o NamedGroup(ret.defensemen, "D")

\* C20 (as claimed): a delivery that fails, by a response whose status is not
\* 2xx or by a request error, is reported as failed, exactly one POST has been
\* sent, and the run is Completed, not Fatal.
C20_Claim ==
    \A i \in 1..Len(posts) :
        (posts[i].error \/ posts[i].status < 200 \/ posts[i].status >= 300) =>
            /\ posted = "failed"
            /\ Len(posts) = 1
            /\ pc = "Completed"
            /\ exc = NoExc

\* C20: a delivery that fails, by a response with a 4xx or 5xx status or by a
\* request error, is reported as failed and is not sent again: exactly one
\* POST has been sent in the run, the run is Completed with no error raised
\* and takes no further step.  A response below 400 counts as delivered.
C20_FailedDeliveryReportedOnce ==
    /\ Len(posts) <= 1
    /\ \A i \in 1..Len(posts) :
        /\ pc = "Completed" /\ exc = NoExc /\ ~ENABLED Next
        /\ (posts[i].error \/ (posts[i].status >= 400 /\ posts[i].status < 600)) =>
              posted = "failed"
        /\ (~posts[i].error /\ posts[i].status < 400) => posted = "ok"

\* the sink answered 503 to the POST of a run that had collected records
C20_Witness ==
    /\ pc = "Completed"
    /\ Len(posts) = 1
    /\ ~posts[1].error
    /\ posts[1].status = 503
    /\ posted = "failed"
    /\ Len(output_rows) > 0



====
